---- MODULE Spec2Model ----
(***************************************************************************)
(* C-PAC Configuration (CPAC/utils/configuration/configuration.py).        *)
(*                                                                         *)
(* Python strings are sequences of one-character strings, so that the      *)
(* regular expressions, str.replace, str.split, str.lower and lstrip and   *)
(* rstrip of the source are computed character by character.  The strings  *)
(* of the model hold no line break and no backslash.                       *)
(*                                                                         *)
(* A configuration value is a tagged record:                               *)
(*   [t |-> "null"], [t |-> "int"], [t |-> "str"], [t |-> "list"],         *)
(*   [t |-> "dict"]  (a dict is a function from keys, themselves strings,  *)
(*   to values; it is iterated in the sorted order of its keys).           *)
(***************************************************************************)
EXTENDS Integers, Sequences, FiniteSets, TLC

VARIABLES
    env,        \* os.environ: variable name -> value
    stack,      \* the Configuration.__init__ calls in progress, outermost first
    err,        \* the exception that ended the construction, or "none"
    validated,  \* the trees handed to the validator, in call order
    warned,     \* number of warnings emitted (warnings.warn)
    conf,       \* argument of the pure function under study
    result,     \* what it returned
    cfg,        \* a constructed Configuration: attribute name -> value
    lastop,     \* the last call made on cfg or on the seed, and its outcome
    nops,       \* calls made so far
    _seed,      \* seed.py: _seed['seed']
    random_seed_flags,  \* seed.py: the flag lists of random_seed_flags
    newone      \* the Configuration that copy(cfg) returned

vars == <<env, stack, err, validated, warned, conf, result, cfg, lastop, nops,
          _seed, random_seed_flags, newone>>

----------------------------------------------------------------------------
(* Characters and strings *)

UpperChars ==
    <<"A","B","C","D","E","F","G","H","I","J","K","L","M",
      "N","O","P","Q","R","S","T","U","V","W","X","Y","Z">>

LowerChars ==
    <<"a","b","c","d","e","f","g","h","i","j","k","l","m",
      "n","o","p","q","r","s","t","u","v","w","x","y","z">>

\* The characters of the model in code point order (the order of sorted()
\* and dir()).
Ascii ==
    <<" ", "$", "-", ".", "/", "0","1","2","3","4","5","6","7","8","9">>
    \o UpperChars \o <<"_">> \o LowerChars \o <<"{", "}">>

IndexIn(seq, c) ==
    IF \E i \in 1..Len(seq) : seq[i] = c
    THEN CHOOSE i \in 1..Len(seq) : seq[i] = c
    ELSE 0

Ord(c) == IndexIn(Ascii, c)

IsUpper(c) == IndexIn(UpperChars, c) # 0

\* str.lower() on one character
LowerChar(c) == IF IsUpper(c) THEN LowerChars[IndexIn(UpperChars, c)] ELSE c

\* str.lower()
Lower(s) == [i \in 1..Len(s) |-> LowerChar(s[i])]

\* s[i:j] of Python with 1-based inclusive bounds; empty when i > j
Slice(s, i, j) == IF i > j THEN <<>> ELSE SubSeq(s, i, j)

\* a < b for strings, as Python compares them
RECURSIVE StrLess(_, _)
StrLess(a, b) ==
    IF b = <<>> THEN FALSE
    ELSE IF a = <<>> THEN TRUE
    ELSE IF a[1] # b[1] THEN Ord(a[1]) < Ord(b[1])
    ELSE StrLess(Tail(a), Tail(b))

\* sorted(keys)
RECURSIVE Sorted(_)
Sorted(S) ==
    IF S = {} THEN <<>>
    ELSE LET m == CHOOSE x \in S : \A y \in S \ {x} : StrLess(x, y)
         IN  <<m>> \o Sorted(S \ {m})

\* needle in haystack, for two strings
IsSubstring(needle, hay) ==
    \E i \in 1..(Len(hay) - Len(needle) + 1) :
        Slice(hay, i, i + Len(needle) - 1) = needle

\* s.split('.')
RECURSIVE Split(_, _)
Split(s, sep) ==
    IF \E i \in 1..Len(s) : s[i] = sep
    THEN LET i == CHOOSE k \in 1..Len(s) :
                      s[k] = sep /\ \A m \in 1..(k - 1) : s[m] # sep
         IN  <<Slice(s, 1, i - 1)>> \o Split(Slice(s, i + 1, Len(s)), sep)
    ELSE <<s>>

\* s.replace(' ', '-') for single characters
ReplaceChar(s, old, new) == [i \in 1..Len(s) |-> IF s[i] = old THEN new ELSE s[i]]

----------------------------------------------------------------------------
(* Values *)

Null == [t |-> "null", v |-> <<>>]
IntV(n) == [t |-> "int", v |-> n]
StrV(s) == [t |-> "str", v |-> s]
ListV(q) == [t |-> "list", v |-> q]
DictV(f) == [t |-> "dict", v |-> f]
\* the Configuration object itself, where the source subscripts `self`
ObjV(attrs) == [t |-> "obj", v |-> attrs]

\* the class ConfigurationDictUpdateConflation, a callable value
ConfigurationDictUpdateConflation == [t |-> "callable", v |-> <<>>]

EmptyMap == [k \in {} |-> Null]

\* the outcome of a call: a returned value, or the exception it raised
Ret(x) == [err |-> "none", val |-> x]
Raise(kind) == [err |-> kind, val |-> Null]

\* x and y are the same value: the same kind, then the same content
RECURSIVE SameValue(_, _)
SameValue(x, y) ==
    /\ x.t = y.t
    /\ CASE x.t \in {"dict", "obj"} ->
                /\ DOMAIN x.v = DOMAIN y.v
                /\ \A k \in DOMAIN x.v : SameValue(x.v[k], y.v[k])
         [] x.t = "list" ->
                /\ Len(x.v) = Len(y.v)
                /\ \A i \in 1..Len(x.v) : SameValue(x.v[i], y.v[i])
         [] OTHER -> x.v = y.v

\* the same attributes, the same outcome of a call
SameAttrs(a, b) == SameValue(DictV(a), DictV(b))
SameOutcome(r, q) == r.err = q.err /\ SameValue(r.val, q.val)

----------------------------------------------------------------------------
(* Null normalization *)

NoneStr == <<"n", "o", "n", "e">>

\* _nonestr_to_None without its list branch
RECURSIVE _nonestr_to_None_no_lists(_)
_nonestr_to_None_no_lists(d) ==
    CASE d.t = "str" -> IF Lower(d.v) = NoneStr THEN Null ELSE d
      [] d.t = "dict" -> DictV([k \in DOMAIN d.v |-> _nonestr_to_None_no_lists(d.v[k])])
      [] OTHER -> d

RECURSIVE _nonestr_to_None(_)
_nonestr_to_None(d) ==
    CASE d.t = "str" -> IF Lower(d.v) = NoneStr THEN Null ELSE d
      [] d.t = "list" -> ListV([i \in 1..Len(d.v) |-> _nonestr_to_None(d.v[i])])
      [] d.t = "dict" -> DictV([k \in DOMAIN d.v |-> _nonestr_to_None(d.v[k])])
      [] OTHER -> d

----------------------------------------------------------------------------
(* Environment interpolation *)

\* [A-Z\-_]
IsNameChar(c) == IsUpper(c) \/ c \in {"-", "_"}

\* the last index of the longest run of name characters that starts at i
\* (i - 1 when there is none)
RECURSIVE NameEnd(_, _)
NameEnd(s, i) ==
    IF i <= Len(s) /\ IsNameChar(s[i]) THEN NameEnd(s, i + 1) ELSE i - 1

\* _pattern1 = r'\${[A-Z\-_]*}' matched at i: the index of its last
\* character, 0 when it does not match there
Pattern1End(s, i) ==
    IF i + 1 <= Len(s) /\ s[i] = "$" /\ s[i + 1] = "{"
    THEN LET j == NameEnd(s, i + 2)
         IN  IF j + 1 <= Len(s) /\ s[j + 1] = "}" THEN j + 1 ELSE 0
    ELSE 0

\* _pattern2 without its lookahead, r'\$[A-Z\-_]*'
Pattern2End_no_lookahead(s, i) ==
    IF i <= Len(s) /\ s[i] = "$" THEN NameEnd(s, i + 1) ELSE 0

\* _pattern2 = r'\$[A-Z\-_]*(?=/|$)' matched at i.  A shorter run of name
\* characters is followed by a name character, so only the longest run can
\* meet the lookahead.
Pattern2End(s, i) ==
    IF i <= Len(s) /\ s[i] = "$"
    THEN LET j == NameEnd(s, i + 1)
         IN  IF j = Len(s) \/ s[j + 1] = "/" THEN j ELSE 0
    ELSE 0

\* the two patterns of set_from_ENV, by name
PatternEnd(_pattern, s, i) ==
    IF _pattern = "_pattern1" THEN Pattern1End(s, i) ELSE Pattern2End(s, i)

\* re.search(_pattern, s): the start of the leftmost match, 0 for no match
Search(_pattern, s) ==
    IF \E i \in 1..Len(s) : PatternEnd(_pattern, s, i) # 0
    THEN CHOOSE i \in 1..Len(s) :
             /\ PatternEnd(_pattern, s, i) # 0
             /\ \A k \in 1..(i - 1) : PatternEnd(_pattern, s, k) = 0
    ELSE 0

\* re.sub(_pattern, repl, s) from index i on: every match, left to right,
\* without overlap, becomes repl (repl holds no backslash)
RECURSIVE Sub(_, _, _, _)
Sub(_pattern, repl, s, i) ==
    IF i > Len(s) THEN <<>>
    ELSE IF PatternEnd(_pattern, s, i) # 0
         THEN repl \o Sub(_pattern, repl, s, PatternEnd(_pattern, s, i) + 1)
         ELSE <<s[i]>> \o Sub(_pattern, repl, s, i + 1)

RECURSIVE LStrip(_, _)
LStrip(s, chars) ==
    IF s # <<>> /\ s[1] \in chars THEN LStrip(Tail(s), chars) ELSE s

RECURSIVE RStrip(_, _)
RStrip(s, chars) ==
    IF s # <<>> /\ s[Len(s)] \in chars
    THEN RStrip(Slice(s, 1, Len(s) - 1), chars)
    ELSE s

\* os.environ.get(name, default)
EnvGet(e, name, default) == IF name \in DOMAIN e THEN e[name] ELSE default

\* one turn of the loop `for _pattern in [_pattern1, _pattern2]`
EnvPass(_pattern, e, s) ==
    LET i == Search(_pattern, s)
    IN  IF i = 0 THEN s
        ELSE LET _match == RStrip(LStrip(Slice(s, i, PatternEnd(_pattern, s, i)),
                                         {"$", "{"}), {"}"})
             IN  Sub(_pattern, EnvGet(e, _match, <<"$">> \o _match), s, 1)

set_from_ENV_str(e, s) == EnvPass("_pattern2", e, EnvPass("_pattern1", e, s))

RECURSIVE set_from_ENV(_, _)
set_from_ENV(e, c) ==
    CASE c.t = "list" -> ListV([i \in 1..Len(c.v) |-> set_from_ENV(e, c.v[i])])
      [] c.t = "dict" -> DictV([k \in DOMAIN c.v |-> set_from_ENV(e, c.v[k])])
      [] c.t = "str" -> StrV(set_from_ENV_str(e, c.v))
      [] OTHER -> c

----------------------------------------------------------------------------
(* Path addressing *)

\* a key handed to __getitem__ / __setitem__ / get_nested / set_nested
StrKey(k) == [form |-> "str", ks |-> <<k>>]
TupleKey(ks) == [form |-> "tuple", ks |-> ks]
ListKey(ks) == [form |-> "list", ks |-> ks]
\* a key that is neither a string, a list nor a tuple (an int)
OtherKey == [form |-> "other", ks |-> <<>>]

\* d[k] raising KeyError whatever d is
Subscript_KeyError_only(d, k) ==
    IF d.t \in {"obj", "dict"} /\ k \in DOMAIN d.v THEN Ret(d.v[k])
    ELSE Raise("KeyError")

\* d[k] for a string k.  On the Configuration object it is __getitem__ with a
\* string, which is getattr.
Subscript(d, k) ==
    CASE d.t = "obj" ->
             IF k \in DOMAIN d.v THEN Ret(d.v[k]) ELSE Raise("AttributeError")
      [] d.t = "dict" ->
             IF k \in DOMAIN d.v THEN Ret(d.v[k]) ELSE Raise("KeyError")
      [] OTHER -> Raise("TypeError")

\* d[k] = value for a string k, as the new d.  On the Configuration object
\* it is __setitem__ with a string, which is setattr.
SetSubscript(d, k, value) ==
    IF d.t \in {"obj", "dict"}
    THEN Ret([t |-> d.t,
              v |-> [x \in DOMAIN d.v \cup {k} |-> IF x = k THEN value ELSE d.v[x]]])
    ELSE Raise("TypeError")

RECURSIVE get_nested_seq(_, _)
get_nested_seq(d0, ks) ==
    LET d == IF d0.t = "null" THEN DictV(EmptyMap) ELSE d0
    IN  IF ks = <<>> THEN Raise("IndexError")
        ELSE IF Len(ks) > 1
             THEN LET r == Subscript(d, ks[1])
                  IN  IF r.err # "none" THEN r
                      ELSE get_nested_seq(r.val, Tail(ks))
             ELSE Subscript(d, ks[1])

get_nested(d0, keys) ==
    LET d == IF d0.t = "null" THEN DictV(EmptyMap) ELSE d0
    IN  CASE keys.form = "str" -> Subscript(d, keys.ks[1])
          [] keys.form \in {"tuple", "list"} -> get_nested_seq(d, keys.ks)
          [] OTHER -> Ret(d)

\* set_nested that assigns at the first key without walking the path
set_nested_seq_first_key(d, ks, value) ==
    IF ks = <<>> THEN Raise("IndexError") ELSE SetSubscript(d, ks[1], value)

RECURSIVE set_nested_seq(_, _, _)
set_nested_seq(d, ks, value) ==
    IF ks = <<>> THEN Raise("IndexError")
    ELSE IF Len(ks) > 1
         THEN LET r == Subscript(d, ks[1])
              IN  IF r.err # "none" THEN r
                  ELSE LET inner == set_nested_seq(r.val, Tail(ks), value)
                       IN  IF inner.err # "none" THEN inner
                           ELSE SetSubscript(d, ks[1], inner.val)
         ELSE SetSubscript(d, ks[1], value)

set_nested(d, keys, value) ==
    CASE keys.form = "str" -> SetSubscript(d, keys.ks[1], value)
      [] keys.form \in {"tuple", "list"} -> set_nested_seq(d, keys.ks, value)
      [] OTHER -> Ret(d)

\* key_type_error raises KeyError
key_type_error == Raise("KeyError")

\* Configuration.__getitem__ on the object with the attributes attrs
getitem(attrs, key) ==
    CASE key.form = "str" -> Subscript(ObjV(attrs), key.ks[1])
      [] key.form \in {"tuple", "list"} -> get_nested(ObjV(attrs), key)
      [] OTHER -> key_type_error

\* Configuration.__setitem__: the attributes after the assignment
setitem(attrs, key, value) ==
    LET r == CASE key.form = "str" -> SetSubscript(ObjV(attrs), key.ks[1], value)
               [] key.form \in {"tuple", "list"} -> set_nested(ObjV(attrs), key, value)
               [] OTHER -> key_type_error
    IN  IF r.err # "none" THEN [err |-> r.err, val |-> attrs]
        ELSE [err |-> "none", val |-> r.val.v]

----------------------------------------------------------------------------
(* Template resolution *)

\* SPECIAL_REPLACEMENT_STRINGS
SPECIAL_REPLACEMENT_STRINGS ==
    { <<"$","{","r","e","s","o","l","u","t","i","o","n","_",
        "f","o","r","_","a","n","a","t","}">>,
      <<"$","{","f","u","n","c","_","r","e","s","o","l","u","t","i","o","n","}">> }

\* template_pattern = r'\${.*}': the match re.finditer yields, as
\* <<first, last>>, or <<0, 0>>.  The greedy .* runs to the last "}" of the
\* string, so a string without a line break has at most one match.
TemplateMatch(s) ==
    LET starts == {i \in 1..(Len(s) - 1) :
                      /\ s[i] = "$" /\ s[i + 1] = "{"
                      /\ \E j \in (i + 2)..Len(s) : s[j] = "}"}
    IN  IF starts = {} THEN <<0, 0>>
        ELSE LET i == CHOOSE x \in starts : \A y \in starts : x <= y
                 j == CHOOSE x \in (i + 2)..Len(s) :
                          s[x] = "}" /\ \A y \in (x + 1)..Len(s) : s[y] # "}"
             IN  <<i, j>>

\* orig_key.replace(pattern, new), pattern being orig_key[i..j]; that text
\* runs from the first "${" to the last "}", so it occurs once
ReplaceMatch(orig_key, i, j, new) ==
    Slice(orig_key, 1, i - 1) \o new \o Slice(orig_key, j + 1, Len(orig_key))

\* sub_pattern: str.replace raises TypeError for a replacement that is not a
\* string
sub_pattern(attrs, orig_key, i, j) ==
    LET pattern == Slice(orig_key, i, j)
        path == Split(Slice(pattern, 3, Len(pattern) - 1), ".")
        found == getitem(attrs, ListKey(path))
    IN  IF found.err # "none" THEN found
        ELSE IF found.val.t # "str" THEN Raise("TypeError")
        ELSE Ret(StrV(ReplaceMatch(orig_key, i, j, found.val.v)))

\* `pattern not in tags`: tags is a list (the default, []) or the string
\* 'FSLDIR' that _update_attr passes
NotInTags(pattern, tags) ==
    IF tags.t = "str" THEN ~IsSubstring(pattern, tags.v)
    ELSE \A n \in 1..Len(tags.v) : tags.v[n] # StrV(pattern)

NoTags == ListV(<<>>)

\* what check_pattern did: the exception it raised or the value it
\* returned, and the warnings it emitted
Checked(e, x, w) == [err |-> e, val |-> x, warns |-> w]

RECURSIVE SumWarns(_)
SumWarns(rs) == IF rs = <<>> THEN 0 ELSE rs[1].warns + SumWarns(Tail(rs))

\* the exception of the first element that raised one
FirstErr(rs) ==
    IF \E n \in 1..Len(rs) : rs[n].err # "none"
    THEN rs[CHOOSE n \in 1..Len(rs) :
                rs[n].err # "none" /\ \A m \in 1..(n - 1) : rs[m].err = "none"].err
    ELSE "none"

check_pattern_str(attrs, orig_key, tags) ==
    LET m == TemplateMatch(orig_key)
        pattern == Slice(orig_key, m[1], m[2])
    IN  IF m[1] = 0 \/ ~NotInTags(pattern, tags)
        THEN Checked("none", StrV(orig_key), 0)
        ELSE LET r == sub_pattern(attrs, orig_key, m[1], m[2])
             IN  IF r.err = "none" THEN Checked("none", r.val, 0)
                 ELSE IF r.err = "AttributeError"
                 THEN Checked("none", StrV(orig_key),
                              IF pattern \in SPECIAL_REPLACEMENT_STRINGS
                              THEN 0 ELSE 1)
                 ELSE Checked(r.err, Null, 0)

RECURSIVE check_pattern(_, _, _)
check_pattern(attrs, orig_key, tags) ==
    CASE orig_key.t = "dict" ->
             LET ks == Sorted(DOMAIN orig_key.v)
                 rs == [n \in 1..Len(ks) |->
                           check_pattern(attrs, orig_key.v[ks[n]], tags)]
             IN  IF FirstErr(rs) # "none" THEN Checked(FirstErr(rs), Null, 0)
                 ELSE Checked("none",
                              DictV([k \in DOMAIN orig_key.v |->
                                       check_pattern(attrs, orig_key.v[k], tags).val]),
                              SumWarns(rs))
      [] orig_key.t = "list" ->
             LET rs == [n \in 1..Len(orig_key.v) |->
                           check_pattern(attrs, orig_key.v[n], NoTags)]
             IN  IF FirstErr(rs) # "none" THEN Checked(FirstErr(rs), Null, 0)
                 ELSE Checked("none",
                              ListV([n \in 1..Len(rs) |-> rs[n].val]),
                              SumWarns(rs))
      [] orig_key.t = "str" -> check_pattern_str(attrs, orig_key.v, tags)
      [] OTHER -> Checked("none", orig_key, 0)

S_template_brain_only_for_anat ==
    <<"t","e","m","p","l","a","t","e","_","b","r","a","i","n","_",
      "o","n","l","y","_","f","o","r","_","a","n","a","t">>
S_template_skull_for_anat ==
    <<"t","e","m","p","l","a","t","e","_","s","k","u","l","l","_",
      "f","o","r","_","a","n","a","t">>
S_ref_mask == <<"r","e","f","_","m","a","s","k">>
S_template_brain_only_for_func ==
    <<"t","e","m","p","l","a","t","e","_","b","r","a","i","n","_",
      "o","n","l","y","_","f","o","r","_","f","u","n","c">>
S_template_skull_for_func ==
    <<"t","e","m","p","l","a","t","e","_","s","k","u","l","l","_",
      "f","o","r","_","f","u","n","c">>
S_template_symmetric_brain_only ==
    <<"t","e","m","p","l","a","t","e","_","s","y","m","m","e","t","r","i","c","_",
      "b","r","a","i","n","_","o","n","l","y">>
S_template_symmetric_skull ==
    <<"t","e","m","p","l","a","t","e","_","s","y","m","m","e","t","r","i","c","_",
      "s","k","u","l","l">>
S_dilated_symmetric_brain_mask ==
    <<"d","i","l","a","t","e","d","_","s","y","m","m","e","t","r","i","c","_",
      "b","r","a","i","n","_","m","a","s","k">>
S_FSLDIR == <<"F","S","L","D","I","R">>

template_list ==
    { S_template_brain_only_for_anat, S_template_skull_for_anat, S_ref_mask,
      S_template_brain_only_for_func, S_template_skull_for_func,
      S_template_symmetric_brain_only, S_template_symmetric_skull,
      S_dilated_symmetric_brain_mask }

\* the loop of _update_attr over `attributes`, the (name, value) pairs read
\* before the loop, in dir() order; each turn looks references up in the
\* object as the turns before it left it
RECURSIVE update_attr_loop(_, _, _, _)
update_attr_loop(attrs, attributes, ks, w) ==
    IF ks = <<>> THEN Checked("none", attrs, w)
    ELSE LET attr_key == ks[1]
             new_key == check_pattern(attrs, attributes[attr_key],
                                      IF attr_key \in template_list
                                      THEN StrV(S_FSLDIR) ELSE NoTags)
         IN  IF new_key.err # "none"
             THEN Checked(new_key.err, attrs, w + new_key.warns)
             ELSE update_attr_loop(
                      [attrs EXCEPT ![attr_key] = new_key.val],
                      attributes, Tail(ks), w + new_key.warns)

\* Configuration._update_attr: the attributes afterwards (as far as it got,
\* when it raised)
_update_attr(attrs) == update_attr_loop(attrs, attrs, Sorted(DOMAIN attrs), 0)

----------------------------------------------------------------------------
(* Collaborators of Configuration.__init__ *)

\* bool(x)
Truthy(x) ==
    CASE x.t = "null" -> FALSE
      [] x.t = "int" -> x.v # 0
      [] OTHER -> x.v # <<>>

\* update_nested_dict(d_base, d_update): deep merge, the override wins at
\* every leaf, two trees at the same key are merged
RECURSIVE update_nested_dict(_, _)
update_nested_dict(d_base, d_update) ==
    DictV([k \in DOMAIN d_base.v \cup DOMAIN d_update.v |->
             IF k \notin DOMAIN d_update.v THEN d_base.v[k]
             ELSE IF k \in DOMAIN d_base.v
                     /\ d_base.v[k].t = "dict" /\ d_update.v[k].t = "dict"
                  THEN update_nested_dict(d_base.v[k], d_update.v[k])
                  ELSE d_update.v[k]])

\* lookup_nested_value(d, keys): KeyError unless every key leads into a tree
RECURSIVE lookup_nested_value(_, _)
lookup_nested_value(d, keys) ==
    IF d.t # "dict" \/ keys[1] \notin DOMAIN d.v THEN Raise("KeyError")
    ELSE IF Len(keys) = 1 THEN Ret(d.v[keys[1]])
    ELSE lookup_nested_value(d.v[keys[1]], Tail(keys))

S_FROM == <<"F","R","O","M">>
S_default == <<"d","e","f","a","u","l","t">>
S_default_pipeline ==
    <<"d","e","f","a","u","l","t","_","p","i","p","e","l","i","n","e">>
S_blank == <<"b","l","a","n","k">>
S_nuisance_corrections ==
    <<"n","u","i","s","a","n","c","e","_","c","o","r","r","e","c","t","i","o","n","s">>
S_2_nuisance_regression ==
    <<"2","-","n","u","i","s","a","n","c","e","_","r","e","g","r","e","s","s","i","o","n">>
S_Regressors == <<"R","e","g","r","e","s","s","o","r","s">>
S_Name == <<"N","a","m","e">>
S_Regressor_ == <<"R","e","g","r","e","s","s","o","r","-">>

RegressorsPath == <<S_nuisance_corrections, S_2_nuisance_regression, S_Regressors>>

\* str(n) for the list positions of the model
Digits == <<"1","2","3","4","5","6","7","8","9">>
IntToStr(n) == <<Digits[n]>>

\* one turn of the loop over the Regressors: the regressor afterwards
NameRegressor(regressor, i) ==
    IF regressor.t # "dict" THEN Raise("TypeError")
    ELSE LET named == IF S_Name \in DOMAIN regressor.v THEN regressor
                      ELSE SetSubscript(regressor, S_Name,
                                        StrV(S_Regressor_ \o IntToStr(i + 1))).val
         IN  IF named.v[S_Name].t # "str" THEN Raise("AttributeError")
             ELSE SetSubscript(named, S_Name,
                               StrV(ReplaceChar(named.v[S_Name].v, " ", "-")))

\* lines 105-118: name the Regressors of the tree in place
NameRegressors(config_map) ==
    LET found == lookup_nested_value(config_map, RegressorsPath)
        regressors == IF found.err = "KeyError" THEN ListV(<<>>) ELSE found.val
    IN  IF regressors.t # "list" THEN Ret(config_map)
        ELSE LET rs == [n \in 1..Len(regressors.v) |->
                           NameRegressor(regressors.v[n], n - 1)]
             IN  IF FirstErr(rs) # "none" THEN Raise(FirstErr(rs))
                 ELSE IF rs = <<>> THEN Ret(config_map)
                 ELSE set_nested_seq(config_map, RegressorsPath,
                                     ListV([n \in 1..Len(rs) |-> rs[n].val]))

\* re.match(r'^[\$\{]{0,2}?FSLDIR[\}]?$', s)
MatchesFSLDIR(s) ==
    \E n \in 0..2 :
        /\ Len(s) \in {n + 6, n + 7}
        /\ \A i \in 1..n : s[i] \in {"$", "{"}
        /\ Slice(s, n + 1, n + 6) = S_FSLDIR
        /\ Len(s) = n + 7 => s[n + 7] = "}"

\* lines 126-130: FSLDIR taken from the environment when the tree names it
SetFSLDIR(e, config_map) ==
    LET _FSLDIR == IF S_FSLDIR \in DOMAIN config_map.v
                   THEN config_map.v[S_FSLDIR] ELSE Null
    IN  IF ~Truthy(_FSLDIR) THEN Ret(config_map)
        ELSE IF _FSLDIR.t # "str" THEN Raise("TypeError")
        ELSE IF ~MatchesFSLDIR(_FSLDIR.v) THEN Ret(config_map)
        ELSE IF S_FSLDIR \notin DOMAIN e THEN Raise("KeyError")
        ELSE SetSubscript(config_map, S_FSLDIR, StrV(e[S_FSLDIR]))

\* config_map without the key k
Without(config_map, k) ==
    DictV([x \in DOMAIN config_map.v \ {k} |-> config_map.v[x]])

----------------------------------------------------------------------------
(* The fields of a Configuration *)

\* a dict handed as the key of update
DictKey == [form |-> "dict", ks |-> <<>>]

\* dict() that reports the callable values too
dict_with_callables(attrs) == attrs

\* Configuration.dict(): the attributes whose value is not callable
dict(attrs) ==
    [k \in {x \in DOMAIN attrs : attrs[x].t # "callable"} |-> attrs[k]]

\* Configuration.keys()
keys(attrs) == DOMAIN dict(attrs)

\* setattr(self, name, value): the attributes after the assignment
setattr(attrs, name, value) ==
    [err |-> "none", val |-> SetSubscript(ObjV(attrs), name, value).val.v]

\* Configuration.update(key, val): the attributes after the call
update(attrs, key, val) ==
    IF key.form = "dict"
    THEN [err |-> "ConfigurationDictUpdateConflation", val |-> attrs]
    ELSE setattr(attrs, key.ks[1], val)

----------------------------------------------------------------------------
(* Random seed (CPAC/pipeline/random_state/seed.py) *)

\* np.iinfo(np.int32).max
INT32_MAX == 2147483647

\* an int above np.iinfo(np.int32).max
BigInt == [t |-> "bigint", v |-> <<>>]

S_random == <<"r","a","n","d","o","m">>
S_None == <<"N","o","n","e">>

DigitChars == <<"0","1","2","3","4","5","6","7","8","9">>

\* str(n) for an int n
RECURSIVE DecimalStr(_)
DecimalStr(n) ==
    IF n < 0 THEN <<"-">> \o DecimalStr(0 - n)
    ELSE IF n < 10 THEN <<DigitChars[n + 1]>>
    ELSE DecimalStr(n \div 10) \o <<DigitChars[(n % 10) + 1]>>

\* what an f-string makes of {_seed["seed"]}
FormatSeed(x) ==
    CASE x.t = "null" -> S_None
      [] x.t = "int" -> DecimalStr(x.v)
      [] OTHER -> x.v

S_random_seed_flag == <<"-","-","r","a","n","d","o","m","-","s","e","e","d"," ">>
S_seed_flag == <<"-","s","e","e","d"," ">>
S_norandomness == <<"-","n","o","r","a","n","d","o","m","n","e","s","s">>
S_rng_seed_flag == <<"-","r","n","g","-","s","e","e","d"," ">>

\* lines 16-19, evaluated with the seed of that moment
_reusable_flags(seed) ==
    [ANTs |-> <<S_random_seed_flag \o FormatSeed(seed)>>,
     FSL |-> <<S_seed_flag \o FormatSeed(seed)>>]

\* lines 28-42: random_seed_flags['interfaces'], evaluated with the seed of
\* that moment
InterfaceFlags(seed) ==
    [AI |-> _reusable_flags(seed).ANTs,
     Registration |-> _reusable_flags(seed).ANTs,
     ReconAll |-> <<S_norandomness, S_rng_seed_flag \o FormatSeed(seed)>>,
     ApplyVolTransform |-> _reusable_flags(seed).FSL,
     ImageMaths |-> _reusable_flags(seed).FSL]

\* the module as imported: line 15 sets the seed to None, lines 16-43 build the
\* flag lists from it
ImportedFlags == InterfaceFlags(Null)

\* lines 22-27: the flag the rewrite of hardcoded_reg inserts when called
\* while the stored seed is seed
FunctionFlag(seed) == S_random_seed_flag \o FormatSeed(seed)

\* seed == 'random'
IsRandom(seed) == seed.t = "str" /\ seed.v = S_random

\* isinstance(seed, int) and (0 < int(seed) <= np.iinfo(np.int32).max)
IsValidInt(seed) == seed.t = "int" /\ 0 < seed.v /\ seed.v <= INT32_MAX

\* set_up_random_state that stores the seed before it validates it
set_up_random_state_store_first(current, seed, drawn) ==
    IF seed.t # "null" /\ ~IsRandom(seed) /\ ~IsValidInt(seed)
    THEN [err |-> "ValueError", val |-> seed]
    ELSE Ret(seed)

\* set_up_random_state(seed), lines 113-125, on the stored seed current:
\* the stored seed afterwards.  drawn is what random_random_seed() returns.
set_up_random_state(current, seed, drawn) ==
    LET after115 == IF IsRandom(seed) THEN IntV(drawn) ELSE current
    IN  IF seed.t # "null" /\ ~IsRandom(seed) /\ ~IsValidInt(seed)
        THEN [err |-> "ValueError", val |-> after115]
        ELSE \* int(seed) raises TypeError for None, ValueError for 'random'
             IF seed.t = "int" THEN Ret(IntV(seed.v)) ELSE Ret(seed)

\* random_seed() that draws without storing what it drew
random_seed_not_stored(current, drawn) ==
    [seed |-> current,
     ret |-> IF IsRandom(current) THEN IntV(drawn) ELSE current]

\* random_seed(), lines 76-78: the stored seed afterwards and the value
\* returned
random_seed(current, drawn) ==
    LET stored == IF IsRandom(current) THEN IntV(drawn) ELSE current
    IN  [seed |-> stored, ret |-> stored]

----------------------------------------------------------------------------
(* The files, environments and raw mappings of the model *)

Ka == <<"a">>
Kb == <<"b">>
Kc == <<"c">>
Kd == <<"d">>
Ke == <<"e">>
Kk == <<"k">>
Kl == <<"l">>
Kx == <<"x">>
Ky == <<"y">>
Kz == <<"z">>
S_ndmg == <<"n","d","m","g">>
S_A == <<"A">>
S_B == <<"B">>

\* a dict of one, two, ... entries
D1(k1, v1) == DictV([x \in {k1} |-> v1])
D2(k1, v1, k2, v2) == DictV([x \in {k1, k2} |-> IF x = k1 THEN v1 ELSE v2])
Merge(d1, d2) ==
    DictV([x \in DOMAIN d1.v \cup DOMAIN d2.v |->
             IF x \in DOMAIN d2.v THEN d2.v[x] ELSE d1.v[x]])

\* pipeline_config_blank.yml
BlankYaml == D2(Ka, D1(Kb, StrV(<<"v">>)), Kd, Null)

\* pipeline_config_default.yml
DefaultYaml ==
    Merge(D2(Ka, D2(Kb, StrV(<<"w">>), Kc, IntV(3)),
             Kd, StrV(<<"$","A","/","t">>)),
          D2(S_FSLDIR, StrV(S_FSLDIR),
             Ke, StrV(<<"$","{","a",".","b","}","/","u">>)))

\* pipeline_config_ndmg.yml, itself based on the default
NdmgYaml ==
    Merge(D2(S_FROM, StrV(S_default), Ka, D1(Kb, StrV(<<"n">>))),
          Merge(D2(Kk, StrV(<<"$","{","z","}">>), Kz, StrV(<<"$","{","y","}">>)),
                D1(Ky, StrV(<<"q">>))))

\* the packaged resources/configs/pipeline_config_<name>.yml
PackagedConfigs ==
    [n \in {S_blank, S_default, S_ndmg} |->
        IF n = S_blank THEN BlankYaml
        ELSE IF n = S_default THEN DefaultYaml ELSE NdmgYaml]

\* the files of the user, by path; no file is at /g
UserFiles == [n \in {<<"/","f">>} |-> D1(Ka, D1(Kb, StrV(<<"f">>)))]

Envs ==
    { [n \in {S_A, S_FSLDIR} |-> IF n = S_A THEN <<"/","x">> ELSE <<"/","f","s","l">>],
      [n \in {} |-> <<>>] }

FromValues ==
    { S_default, <<"D","e","f","a","u","l","t">>, S_ndmg, <<"/","f">>, <<"/","g">> }

Overrides ==
    { DictV(EmptyMap),
      D1(Ka, D1(Kb, StrV(<<"c","u","s","t","o","m">>))),
      D2(Ka, D1(Kb, StrV(<<"N","o","n","e">>)),
         Kl, ListV(<<StrV(<<"n","o","n","e">>), StrV(<<"x">>)>>)),
      D2(Ka, D1(Kb, IntV(5)), Kc, StrV(<<"$","{","a",".","b","}">>)),
      D1(Kc, StrV(<<"$","{","x",".","y","}">>)),
      D1(Kc, StrV(<<"$","{","a",".","y","}">>)),
      D1(Kc, StrV(<<"p","$","{","a",".","b","}","s">>)),
      D1(Kd, StrV(<<"$","{","A","}","/","s">>)),
      D1(Kd, StrV(<<"$","{","B","}">>)),
      D1(S_FSLDIR, StrV(S_FSLDIR)),
      Merge(D2(Kk, StrV(<<"$","{","y","}">>), Ky, StrV(<<"q">>)),
            D1(Kz, StrV(<<"$","{","k","}">>))),
      D1(S_nuisance_corrections,
         D1(S_2_nuisance_regression,
            D1(S_Regressors,
               ListV(<<D1(Kx, IntV(1)),
                       D1(S_Name, StrV(<<"m","y"," ","r","e","g">>))>>)))) }

\* the raw mappings handed to Configuration(): an override with or without
\* a FROM key
RawMappings ==
    Overrides \cup
    { Merge(o, D1(S_FROM, StrV(f))) : o \in Overrides, f \in FromValues }

----------------------------------------------------------------------------
(* Configuration.__init__, step by step.  A FROM key makes the constructor
   build the base as a Configuration of its own before it goes on, so the
   calls in progress form a stack. *)

\* the call Configuration(config_map) at its first line
NewFrame(config_map) ==
    [ pc |-> "start",
      config_map |-> config_map,
      base |-> EmptyMap,      \* __dict__ of the Configuration built from FROM
      attrs |-> EmptyMap,     \* __dict__ of the object under construction
      steps |-> <<>> ]        \* the steps this call has taken

NoOp == [op |-> "none", key |-> OtherKey, value |-> Null, err |-> "none",
         before |-> EmptyMap, got |-> Null]

\* no copy has been made
NoCopy == [made |-> FALSE, attrs |-> EmptyMap, methods |-> "newone", shared |-> {}]

Top == stack[Len(stack)]

SetTop(f) == [stack EXCEPT ![Len(stack)] = f]

Running == err = "none" /\ stack # <<>>

\* config_map.pop('FROM', None)
PoppedFROM(config_map) ==
    IF S_FROM \in DOMAIN config_map.v THEN config_map.v[S_FROM] ELSE Null

\* lines 90-91
BaseName(base_config) ==
    IF Lower(base_config) \in {S_default, S_default_pipeline}
    THEN S_default ELSE base_config

\* preconfig_yaml(preconfig, True), lines 437-441: the packaged file of that
\* name is opened and parsed
preconfig_yaml_load(preconfig_name) ==
    IF preconfig_name \in DOMAIN PackagedConfigs
    THEN Ret(PackagedConfigs[preconfig_name])
    ELSE Raise("FileNotFoundError")

\* configuration_from_file, lines 418-419
configuration_from_file_load(config_file) ==
    IF config_file \in DOMAIN UserFiles
    THEN Ret(UserFiles[config_file])
    ELSE Raise("FileNotFoundError")

\* lines 93-96: the mapping the base Configuration is built from.
\* Preconfiguration raises what opening the packaged file raises; only
\* BadParameter makes the constructor read FROM as a file path.
BaseMapping(base_config) ==
    LET packaged == preconfig_yaml_load(base_config)
    IN  IF packaged.err = "BadParameter"
        THEN configuration_from_file_load(base_config)
        ELSE packaged

\* lines 88-96 with a FROM: start building the base
InitFrom ==
    /\ Running /\ Top.pc = "start"
    /\ Truthy(PoppedFROM(Top.config_map))
    /\ LET base_config == PoppedFROM(Top.config_map)
           rest == Without(Top.config_map, S_FROM)
           waiting == [Top EXCEPT !.pc = "base", !.config_map = rest,
                                  !.steps = Append(@, "base")]
       IN  IF base_config.t # "str"
           THEN /\ err' = "AttributeError"
                /\ stack' = SetTop(waiting)
           ELSE LET mapping == BaseMapping(BaseName(base_config.v))
                IN  IF mapping.err # "none"
                    THEN /\ err' = mapping.err
                         /\ stack' = SetTop(waiting)
                    ELSE /\ err' = err
                         /\ stack' = Append(SetTop(waiting), NewFrame(mapping.val))
    /\ UNCHANGED <<newone, _seed, random_seed_flags, env, validated, warned, conf, result, cfg, lastop, nops>>

\* line 97 with the arguments exchanged
MergedOnto_base_wins(base_attrs, config_map) ==
    update_nested_dict(config_map, DictV(base_attrs))

\* line 97: update_nested_dict(base_config.dict(), config_map)
MergedOnto(base_attrs, config_map) ==
    update_nested_dict(DictV(base_attrs), config_map)

\* line 97, once the base Configuration is built
InitMergeFrom ==
    /\ Running /\ Len(stack) > 1 /\ Top.pc = "ready"
    /\ LET below == stack[Len(stack) - 1]
       IN  stack' = [SubSeq(stack, 1, Len(stack) - 1) EXCEPT ![Len(stack) - 1] =
                        [below EXCEPT !.pc = "merged",
                                      !.base = Top.attrs,
                                      !.config_map = MergedOnto(Top.attrs, @),
                                      !.steps = Append(@, "merge")]]
    /\ UNCHANGED <<newone, _seed, random_seed_flags, env, err, validated, warned, conf, result, cfg, lastop, nops>>

\* lines 88 and 98-101, without a FROM: the blank template is the base
InitMergeBlank ==
    /\ Running /\ Top.pc = "start"
    /\ ~Truthy(PoppedFROM(Top.config_map))
    /\ stack' = SetTop([Top EXCEPT
                          !.pc = "merged",
                          !.config_map = update_nested_dict(
                               PackagedConfigs[S_blank],
                               Without(Top.config_map, S_FROM)),
                          !.steps = @ \o <<"base", "merge">>])
    /\ UNCHANGED <<newone, _seed, random_seed_flags, env, err, validated, warned, conf, result, cfg, lastop, nops>>

\* line 103
InitNormalize ==
    /\ Running /\ Top.pc = "merged"
    /\ stack' = SetTop([Top EXCEPT !.pc = "normalized",
                                   !.config_map = _nonestr_to_None(@),
                                   !.steps = Append(@, "normalize")])
    /\ UNCHANGED <<newone, _seed, random_seed_flags, env, err, validated, warned, conf, result, cfg, lastop, nops>>

\* lines 105-118
InitRegressors ==
    /\ Running /\ Top.pc = "normalized"
    /\ LET r == NameRegressors(Top.config_map)
       IN  IF r.err # "none"
           THEN err' = r.err /\ stack' = stack
           ELSE /\ err' = err
                /\ stack' = SetTop([Top EXCEPT !.pc = "named", !.config_map = r.val])
    /\ UNCHANGED <<newone, _seed, random_seed_flags, env, validated, warned, conf, result, cfg, lastop, nops>>

\* what the validator is handed, and what of the object exists then
Handed(f) == [tree |-> f.config_map, attrs |-> f.attrs, depth |-> Len(stack)]

\* lines 120-134 with the attributes set before schema(config_map) is called
InitValidate_attrs_first ==
    /\ Running /\ Top.pc = "named"
    /\ validated' = Append(validated, Handed(Top))
    /\ \E accepted \in BOOLEAN :
          LET assigned == [Top EXCEPT !.attrs = [k \in DOMAIN Top.config_map.v |->
                                          set_from_ENV(env, Top.config_map.v[k])]]
          IN  IF accepted
              THEN /\ err' = err
                   /\ stack' = SetTop([assigned EXCEPT
                                         !.pc = "validated",
                                         !.config_map = Without(@, S_FROM),
                                         !.steps = Append(@, "validate")])
              ELSE /\ err' = "SchemaError"
                   /\ stack' = SetTop(assigned)
    /\ UNCHANGED <<newone, _seed, random_seed_flags, env, warned, conf, result, cfg, lastop, nops>>

\* lines 120-124: schema(config_map) returns the tree or raises
InitValidate ==
    /\ Running /\ Top.pc = "named"
    /\ validated' = Append(validated, Handed(Top))
    /\ \E accepted \in BOOLEAN :
          IF accepted
          THEN /\ err' = err
               /\ stack' = SetTop([Top EXCEPT
                                     !.pc = "validated",
                                     !.config_map = Without(@, S_FROM),
                                     !.steps = Append(@, "validate")])
          ELSE /\ err' = "SchemaError"
               /\ stack' = stack
    /\ UNCHANGED <<newone, _seed, random_seed_flags, env, warned, conf, result, cfg, lastop, nops>>

\* lines 126-134: FSLDIR, then every key becomes an attribute holding its
\* environment-interpolated value
InitSetAttrs ==
    /\ Running /\ Top.pc = "validated"
    /\ LET r == SetFSLDIR(env, Top.config_map)
       IN  IF r.err # "none"
           THEN err' = r.err /\ stack' = stack
           ELSE /\ err' = err
                /\ stack' = SetTop([Top EXCEPT
                                      !.pc = "envResolved",
                                      !.config_map = r.val,
                                      !.attrs = [k \in DOMAIN r.val.v |->
                                                    set_from_ENV(env, r.val.v[k])],
                                      !.steps = Append(@, "env")])
    /\ UNCHANGED <<newone, _seed, random_seed_flags, env, validated, warned, conf, result, cfg, lastop, nops>>

\* line 136
InitUpdateAttr ==
    /\ Running /\ Top.pc = "envResolved"
    /\ LET r == _update_attr(Top.attrs)
       IN  /\ warned' = warned + r.warns
           /\ err' = r.err
           /\ stack' = SetTop([Top EXCEPT
                                 !.pc = IF r.err = "none" THEN "ready" ELSE @,
                                 !.attrs = r.val,
                                 !.steps = Append(@, "template")])
    /\ UNCHANGED <<newone, _seed, random_seed_flags, env, validated, conf, result, cfg, lastop, nops>>

Init ==
    /\ _seed = Null
    /\ newone = NoCopy
    /\ random_seed_flags = ImportedFlags
    /\ env \in Envs
    /\ conf \in RawMappings
    /\ stack = <<NewFrame(conf)>>
    /\ err = "none"
    /\ validated = <<>>
    /\ warned = 0
    /\ result = Null
    /\ cfg = EmptyMap
    /\ lastop = NoOp
    /\ nops = 0

Next ==
    \/ InitFrom
    \/ InitMergeFrom
    \/ InitMergeBlank
    \/ InitNormalize
    \/ InitRegressors
    \/ InitValidate
    \/ InitSetAttrs
    \/ InitUpdateAttr

Spec == Init /\ [][Next]_vars

\* the outermost constructor has returned
Constructed == err = "none" /\ Len(stack) = 1 /\ stack[1].pc = "ready"

----------------------------------------------------------------------------
(* set_from_ENV on its own: the environment and the argument are drawn, the
   function is applied once *)

\* the variables a string may name; A and B are the ones an environment sets
EnvValueA == <<"/","x","/","y">>
EnvValueB == <<"/","w">>

EnvTables ==
    { [n \in {S_A, S_B} |-> IF n = S_A THEN EnvValueA ELSE EnvValueB],
      [n \in {S_A} |-> EnvValueA],
      [n \in {S_B} |-> EnvValueB],
      [n \in {} |-> <<>>] }

Braced(name) == <<"$", "{">> \o name \o <<"}">>
Bare(name) == <<"$">> \o name

EnvNames == {S_A, S_B}
EnvPrefixes == { <<>>, <<"p">>, <<"p", "/">> }
EnvSuffixes == { <<>>, <<"/", "z">>, <<"s">> }

\* strings with one token, or with a bare name and no token
OneTokenStrings ==
    { p \o t \o x : p \in EnvPrefixes, x \in EnvSuffixes,
                    t \in {Braced(n) : n \in EnvNames}
                          \cup {Bare(n) : n \in EnvNames} \cup EnvNames }

\* strings with two tokens
TwoTokenStrings ==
    { t1 \o <<"/">> \o t2 :
        t1 \in {Braced(n) : n \in EnvNames} \cup {Bare(n) : n \in EnvNames},
        t2 \in {Braced(n) : n \in EnvNames} \cup {Bare(n) : n \in EnvNames} }

EnvArguments ==
    {StrV(x) : x \in OneTokenStrings \cup TwoTokenStrings}
    \cup { IntV(1), Null,
           ListV(<<StrV(Braced(S_A)), StrV(S_A), IntV(1)>>),
           D1(Kk, D1(Kl, ListV(<<IntV(1), StrV(<<"1">>),
                                 StrV(Bare(S_A) \o <<"/","z">>)>>))) }

InitEnv ==
    /\ _seed = Null
    /\ newone = NoCopy
    /\ random_seed_flags = ImportedFlags
    /\ env \in EnvTables
    /\ conf \in EnvArguments
    /\ result = Null
    /\ nops = 0
    /\ stack = <<>>
    /\ err = "none"
    /\ validated = <<>>
    /\ warned = 0
    /\ cfg = EmptyMap
    /\ lastop = NoOp

CallSetFromENV ==
    /\ stack = <<>> /\ nops = 0
    /\ result' = set_from_ENV(env, conf)
    /\ nops' = 1
    /\ UNCHANGED <<newone, _seed, random_seed_flags, env, stack, err, validated, warned, conf, cfg, lastop>>

NextEnv == CallSetFromENV

SpecEnv == InitEnv /\ [][NextEnv]_vars

----------------------------------------------------------------------------
(* Path-addressed reads and writes on a constructed Configuration: the
   object is drawn, then c[key] and c[key] = value are called on it *)

\* the calls made on one object
MaxOps == 2

\* the attributes of the objects
AccessConfigs ==
    { [n \in {Ka, Kd, Kl, Kk} |->
          CASE n = Ka -> D2(Kb, StrV(<<"v">>), Kc, D1(Kk, IntV(1)))
            [] n = Kd -> Null
            [] n = Kl -> ListV(<<StrV(<<"x">>)>>)
            [] n = Kk -> IntV(3)],
      [n \in {Ka, Kd} |-> IF n = Ka THEN D1(Kb, StrV(<<"v">>)) ELSE Null] }

\* the paths asked for: present ones, ones whose first or later key is
\* absent, ones that lead through a null, a string, a list, an int
AccessPaths ==
    { <<Ka>>, <<Kd>>, <<Kz>>,
      <<Ka, Kb>>, <<Ka, Kc>>, <<Ka, Kz>>, <<Kz, Kx>>,
      <<Ka, Kc, Kk>>, <<Ka, Kc, Kz>>,
      <<Kd, Kx>>, <<Kd, Kx, Ky>>, <<Ka, Kb, Kx>>, <<Kl, Kx>>, <<Kk, Kx>> }

AccessKeys ==
    { TupleKey(ks) : ks \in AccessPaths \cup {<<>>} }
    \cup { ListKey(ks) : ks \in {<<Ka>>, <<Kz>>, <<Ka, Kb>>, <<Ka, Kc, Kk>>} }
    \cup { StrKey(k) : k \in {Ka, Kd, Kz} }
    \cup { OtherKey }

AccessValues == { IntV(7), StrV(<<"n">>), D1(Kk, Null) }

InitAccess ==
    /\ _seed = Null
    /\ newone = NoCopy
    /\ random_seed_flags = ImportedFlags
    /\ cfg \in AccessConfigs
    /\ lastop = NoOp
    /\ nops = 0
    /\ env = [n \in {} |-> <<>>]
    /\ conf = Null
    /\ result = Null
    /\ stack = <<>>
    /\ err = "none"
    /\ validated = <<>>
    /\ warned = 0

\* c[key]
GetItem ==
    /\ nops < MaxOps
    /\ \E key \in AccessKeys :
          LET r == getitem(cfg, key)
          IN  lastop' = [op |-> "get", key |-> key, value |-> Null,
                         err |-> r.err, before |-> cfg, got |-> r.val]
    /\ nops' = nops + 1
    /\ UNCHANGED <<newone, _seed, random_seed_flags, env, stack, err, validated, warned, conf, result, cfg>>

\* c[key] = value
SetItem ==
    /\ nops < MaxOps
    /\ \E key \in AccessKeys, value \in AccessValues :
          LET r == setitem(cfg, key, value)
          IN  /\ cfg' = r.val
              /\ lastop' = [op |-> "set", key |-> key, value |-> value,
                            err |-> r.err, before |-> cfg, got |-> Null]
    /\ nops' = nops + 1
    /\ UNCHANGED <<newone, _seed, random_seed_flags, env, stack, err, validated, warned, conf, result>>

\* c.name = value
SetAttr ==
    /\ nops < MaxOps
    /\ \E name \in {Ka, Kz}, value \in AccessValues :
          LET r == setattr(cfg, name, value)
          IN  /\ cfg' = r.val
              /\ lastop' = [op |-> "setattr", key |-> StrKey(name),
                            value |-> value, err |-> r.err, before |-> cfg,
                            got |-> Null]
    /\ nops' = nops + 1
    /\ UNCHANGED <<newone, _seed, random_seed_flags, env, stack, err, validated, warned, conf, result>>

\* c.update(key, val), and c.update(key), whose val is the default
Update ==
    /\ nops < MaxOps
    /\ \E key \in {StrKey(Ka), StrKey(Kz), DictKey},
          val \in {IntV(7), ConfigurationDictUpdateConflation} :
          LET r == update(cfg, key, val)
          IN  /\ cfg' = r.val
              /\ lastop' = [op |-> "update", key |-> key, value |-> val,
                            err |-> r.err, before |-> cfg, got |-> Null]
    /\ nops' = nops + 1
    /\ UNCHANGED <<newone, _seed, random_seed_flags, env, stack, err, validated, warned, conf, result>>

NextAccess ==
    \/ GetItem
    \/ SetItem
    \/ SetAttr
    \/ Update

SpecAccess == InitAccess /\ [][NextAccess]_vars

----------------------------------------------------------------------------
(* copy(c): an object is drawn, then it is copied, and c[key] = value and
   c.update(key, val) are called on it and on its copy; the program is
   sequential, so no call starts while another is in progress.  The two objects are
   "self" (cfg) and "newone".

   _update_attr (lines 283-288, 304) walks dir(self), in which the methods of
   the class are listed too; `callable(attr)` tests the name, a string, so
   the loop stores every method, bound to self, in self.__dict__.  A call
   obj.method() finds that entry before the class's function: `methods` is
   the object whose bound methods obj.__dict__ holds.  The entries are
   callable, and dict() leaves them out.

   __dict__.update copies references: `shared` holds the names whose value
   is one and the same Python object in both objects. *)

\* the calls made on the two objects
MaxCopyOps == 2

S_slash_fsl == <<"/","f","s","l">>
S_FSLDIR_token_m == <<"$","{","F","S","L","D","I","R","}","/","m">>

\* the attributes of the objects copied
CopyConfigs ==
    { [n \in {Ka, Kd, Kl, Kk} |->
          CASE n = Ka -> D2(Kb, StrV(<<"v">>), Kc, D1(Kk, IntV(1)))
            [] n = Kd -> Null
            [] n = Kl -> ListV(<<StrV(<<"x">>)>>)
            [] n = Kk -> IntV(3)],
      [n \in {Ka, Kd, S_FSLDIR, S_ref_mask} |->
          CASE n = Ka -> D1(Kb, StrV(<<"v">>))
            [] n = Kd -> Null
            [] n = S_FSLDIR -> StrV(S_slash_fsl)
            [] n = S_ref_mask -> StrV(<<"x">>)] }

CopyKeys ==
    { StrKey(Kk), StrKey(S_ref_mask), TupleKey(<<Ka, Kb>>),
      TupleKey(<<Ka, Kc, Kk>>) }

CopyValues ==
    { IntV(7), StrV(S_FSLDIR_token_m), ListV(<<StrV(S_FSLDIR_token_m)>>) }

\* newone.__dict__.update(self.__dict__), line 148, on the data attributes
DictUpdate(newone_attrs, self_attrs) ==
    [k \in DOMAIN newone_attrs \cup DOMAIN self_attrs |->
        IF k \in DOMAIN self_attrs THEN self_attrs[k] ELSE newone_attrs[k]]

\* the names whose value check_pattern handed back as the object it was
\* given (lines 272-274): the others are rebuilt (lines 254-260) or new strings
HandedBack(before, after) ==
    { k \in DOMAIN before :
        before[k].t \notin {"dict", "list"} /\ SameValue(before[k], after[k]) }

\* the attributes of an object
AttrsOf(c, n, obj) == IF obj = "self" THEN c ELSE n.attrs

\* the object a method call on obj runs on; the methods in self.__dict__ are
\* self's own
Receiver(n, obj) == IF obj = "self" THEN "self" ELSE n.methods

Objects == IF newone.made THEN {"self", "newone"} ELSE {"self"}

Other(obj) == IF obj = "self" THEN "newone" ELSE "self"

\* no call is in progress on the two objects
Idle == stack = <<>> /\ err = "none"

\* copy.copy(cfg), line 147: type(self)({}) is called; the constructor runs
\* step by step, as above
CopyNew ==
    /\ Idle
    /\ nops < MaxCopyOps
    /\ ~newone.made
    /\ stack' = <<NewFrame(DictV(EmptyMap))>>
    /\ lastop' = [op |-> "new", on |-> "self", key |-> OtherKey,
                  value |-> Null, err |-> "none", before |-> cfg, got |-> Null]
    /\ nops' = nops + 1
    /\ UNCHANGED <<newone, _seed, random_seed_flags, env, err, validated, warned, conf, result, cfg>>

\* copy.copy(cfg), lines 148-150, once the constructor has returned newone.
\* Line 148 replaces the methods in newone.__dict__ by those of
\* self.__dict__, bound to self, so newone._update_attr() of line 149 runs
\* on self: self's containers are rebuilt, newone keeps the ones self had.
\* When line 149 raises, no copy is returned.
Copy ==
    /\ Running /\ Len(stack) = 1 /\ Top.pc = "ready"
    /\ lastop.op = "new"
    /\ LET r == _update_attr(cfg)
       IN  /\ cfg' = r.val
           /\ warned' = warned + r.warns
           /\ lastop' = [op |-> "copy", on |-> "self", key |-> OtherKey,
                         value |-> Null, err |-> r.err, before |-> cfg,
                         got |-> Null]
    /\ newone' = IF lastop'.err # "none" THEN NoCopy
                 ELSE [made |-> TRUE,
                       attrs |-> DictUpdate(Top.attrs, cfg),
                       methods |-> Receiver(NoCopy, "self"),
                       shared |-> HandedBack(cfg, cfg')]
    /\ stack' = <<>>
    /\ UNCHANGED <<_seed, random_seed_flags, env, err, validated, conf, result, nops>>

\* obj[key] = value: __setitem__ is looked up on the class and set_nested is
\* handed obj itself, so the assignment is made on obj.  A path of several
\* keys changes the value of its first key in place, a single key binds the
\* name to the new value.
CopySetItem ==
    /\ Idle
    /\ nops < MaxCopyOps
    /\ \E obj \in Objects, key \in CopyKeys, value \in CopyValues :
          LET r == setitem(AttrsOf(cfg, newone, obj), key, value)
              k == key.ks[1]
              in_place == r.err = "none" /\ Len(key.ks) > 1 /\ k \in newone.shared
              other == AttrsOf(cfg, newone, Other(obj))
              other_after == IF in_place THEN [other EXCEPT ![k] = r.val[k]]
                             ELSE other
              shared_after == IF r.err = "none" /\ Len(key.ks) = 1
                              THEN newone.shared \ {k} ELSE newone.shared
          IN  /\ cfg' = IF obj = "self" THEN r.val ELSE other_after
              /\ newone' = IF ~newone.made THEN newone
                           ELSE [newone EXCEPT
                                   !.attrs = IF obj = "self" THEN other_after
                                             ELSE r.val,
                                   !.shared = shared_after]
              /\ lastop' = [op |-> "set", on |-> obj, key |-> key,
                            value |-> value, err |-> r.err,
                            before |-> AttrsOf(cfg, newone, obj), got |-> Null]
    /\ nops' = nops + 1
    /\ UNCHANGED <<_seed, random_seed_flags, env, stack, err, validated, warned, conf, result>>

\* obj.update(key, val): the method found in obj.__dict__ runs on the object
\* it is bound to
CopyUpdate ==
    /\ Idle
    /\ nops < MaxCopyOps
    /\ \E obj \in Objects, key \in {StrKey(Kk), DictKey}, val \in {IntV(77)} :
          LET target == Receiver(newone, obj)
              r == update(AttrsOf(cfg, newone, target), key, val)
          IN  /\ cfg' = IF target = "self" THEN r.val ELSE cfg
              /\ newone' = IF ~newone.made THEN newone
                           ELSE [newone EXCEPT
                                   !.attrs = IF target = "newone"
                                             THEN r.val ELSE @,
                                   !.shared = IF r.err = "none"
                                              THEN @ \ {key.ks[1]} ELSE @]
              /\ lastop' = [op |-> "update", on |-> obj, key |-> key,
                            value |-> val, err |-> r.err,
                            before |-> AttrsOf(cfg, newone, target),
                            got |-> Null]
    /\ nops' = nops + 1
    /\ UNCHANGED <<_seed, random_seed_flags, env, stack, err, validated, warned, conf, result>>

InitCopy ==
    /\ _seed = Null
    /\ random_seed_flags = ImportedFlags
    /\ newone = NoCopy
    /\ cfg \in CopyConfigs
    /\ lastop = NoOp
    /\ nops = 0
    /\ env = [n \in {} |-> <<>>]
    /\ conf = Null
    /\ result = Null
    /\ stack = <<>>
    /\ err = "none"
    /\ validated = <<>>
    /\ warned = 0

NextCopy ==
    \/ CopyNew
    \/ InitMergeBlank
    \/ InitNormalize
    \/ InitRegressors
    \/ InitValidate
    \/ InitSetAttrs
    \/ InitUpdateAttr
    \/ Copy
    \/ CopySetItem
    \/ CopyUpdate

SpecCopy == InitCopy /\ [][NextCopy]_vars

----------------------------------------------------------------------------
(* The random seed: the module is imported, then set_up_random_state,
   random_seed and the rewrite of hardcoded_reg are called *)

\* the calls made on the module
MaxCalls == 3

\* the seeds handed to set_up_random_state
Seeds ==
    { Null, StrV(S_random), StrV(<<"r","a","n","d","o">>), StrV(<<"5">>),
      IntV(0), IntV(0 - 1), IntV(1), IntV(100), IntV(INT32_MAX), BigInt }

\* what random.randint(1, np.iinfo(np.int32).max) may return
Draws == { 1, 42, INT32_MAX }

NoCall == [op |-> "none", key |-> OtherKey, value |-> Null, err |-> "none",
           before |-> Null, got |-> Null]

InitSeed ==
    /\ _seed = Null
    /\ newone = NoCopy
    /\ random_seed_flags = ImportedFlags
    /\ lastop = NoCall
    /\ nops = 0
    /\ env = [n \in {} |-> <<>>]
    /\ conf = Null
    /\ result = Null
    /\ cfg = EmptyMap
    /\ stack = <<>>
    /\ err = "none"
    /\ validated = <<>>
    /\ warned = 0

\* set_up_random_state(seed)
SetUpRandomState ==
    /\ nops < MaxCalls
    /\ \E seed \in Seeds, drawn \in Draws :
          LET r == set_up_random_state(_seed, seed, drawn)
          IN  /\ _seed' = r.val
              /\ lastop' = [op |-> "set_up_random_state", key |-> OtherKey,
                            value |-> seed, err |-> r.err, before |-> _seed,
                            got |-> Null]
    /\ nops' = nops + 1
    /\ UNCHANGED <<newone, random_seed_flags, env, stack, err, validated, warned,
                   conf, result, cfg>>

\* random_seed()
RandomSeed ==
    /\ nops < MaxCalls
    /\ \E drawn \in Draws :
          LET r == random_seed(_seed, drawn)
          IN  /\ _seed' = r.seed
              /\ lastop' = [op |-> "random_seed", key |-> OtherKey,
                            value |-> Null, err |-> "none", before |-> _seed,
                            got |-> r.ret]
    /\ nops' = nops + 1
    /\ UNCHANGED <<newone, random_seed_flags, env, stack, err, validated, warned,
                   conf, result, cfg>>

\* random_seed_flags['functions'][hardcoded_reg](fn_string): the flag it
\* inserts is formatted when it is called
RewriteHardcodedReg ==
    /\ nops < MaxCalls
    /\ lastop' = [op |-> "rewrite", key |-> OtherKey, value |-> Null,
                  err |-> "none", before |-> _seed,
                  got |-> StrV(FunctionFlag(_seed))]
    /\ nops' = nops + 1
    /\ UNCHANGED <<newone, _seed, random_seed_flags, env, stack, err, validated, warned,
                   conf, result, cfg>>

NextSeed ==
    \/ SetUpRandomState
    \/ RandomSeed
    \/ RewriteHardcodedReg

SpecSeed == InitSeed /\ [][NextSeed]_vars

----------------------------------------------------------------------------
(* Claims on set_from_ENV (SpecEnv) *)

\* what a token naming the variable n stands for: the value of n, or the
\* unbraced token when n is not set
Replacement(e, n) == IF n \in DOMAIN e THEN e[n] ELSE Bare(n)

\* a bare $VAR is a token when "/" or the end of the string follows it
Delimited(x) == x = <<>> \/ x[1] = "/"

\* C7: a string with one token: ${VAR} becomes the value of VAR, or $VAR
\* when VAR is not set; $VAR before "/" or the end becomes the value of VAR
\* and stays when VAR is not set; a $VAR before anything else, a bare VAR,
\* and every leaf that is not a string are returned unchanged; lists and
\* trees are walked.
C7_OneTokenInterpolated ==
    nops = 1 =>
      /\ \A p \in EnvPrefixes, x \in EnvSuffixes, n \in EnvNames :
            /\ SameValue(conf, StrV(p \o Braced(n) \o x))
                  => SameValue(result, StrV(p \o Replacement(env, n) \o x))
            /\ SameValue(conf, StrV(p \o Bare(n) \o x))
                  => SameValue(result,
                               StrV(p \o (IF Delimited(x) THEN Replacement(env, n)
                                          ELSE Bare(n)) \o x))
            /\ SameValue(conf, StrV(p \o n \o x)) => SameValue(result, conf)
      /\ conf.t \in {"int", "null"} => SameValue(result, conf)
      /\ SameValue(conf, ListV(<<StrV(Braced(S_A)), StrV(S_A), IntV(1)>>))
            => SameValue(result,
                         ListV(<<StrV(Replacement(env, S_A)), StrV(S_A), IntV(1)>>))
      /\ SameValue(conf, D1(Kk, D1(Kl, ListV(<<IntV(1), StrV(<<"1">>),
                                               StrV(Bare(S_A) \o <<"/","z">>)>>))))
            => SameValue(result,
                         D1(Kk, D1(Kl, ListV(<<IntV(1), StrV(<<"1">>),
                                 StrV(Replacement(env, S_A) \o <<"/","z">>)>>))))

\* a set variable has been substituted for its token inside a longer string
C7_Witness ==
    /\ nops = 1
    /\ SameValue(conf, StrV(<<"p","/">> \o Bare(S_A) \o <<"/","z">>))
    /\ SameValue(result, StrV(<<"p","/">> \o EnvValueA \o <<"/","z">>))

\* C8: in a string with two tokens that name different variables, each token
\* becomes what its own variable stands for.
C8_EachTokenOwnVariable ==
    nops = 1 =>
      \A n1 \in EnvNames : \A n2 \in EnvNames \ {n1} :
        \A t1 \in {Braced(n1), Bare(n1)}, t2 \in {Braced(n2), Bare(n2)} :
            SameValue(conf, StrV(t1 \o <<"/">> \o t2))
               => SameValue(result, StrV(Replacement(env, n1) \o <<"/">>
                                         \o Replacement(env, n2)))

----------------------------------------------------------------------------
(* Claims on Configuration.__init__ (Spec) *)

StepOrder == <<"base", "merge", "normalize", "validate", "env", "template">>

IsPrefix(s, t) == Len(s) <= Len(t) /\ s = SubSeq(t, 1, Len(s))

\* some string of x is 'none' in some case
RECURSIVE HoldsNoneStr(_)
HoldsNoneStr(x) ==
    CASE x.t = "str" -> Lower(x.v) = NoneStr
      [] x.t = "list" -> \E i \in 1..Len(x.v) : HoldsNoneStr(x.v[i])
      [] x.t = "dict" -> \E k \in DOMAIN x.v : HoldsNoneStr(x.v[k])
      [] OTHER -> FALSE

\* the number of packaged bases a raw mapping is built on, FROM after FROM
RECURSIVE ChainLength(_)
ChainLength(m) ==
    LET f == PoppedFROM(m)
    IN  IF Truthy(f) /\ f.t = "str" /\ BaseName(f.v) \in DOMAIN PackagedConfigs
        THEN 1 + ChainLength(PackagedConfigs[BaseName(f.v)])
        ELSE 0

\* the raw mapping names a base
HasFROM == S_FROM \in DOMAIN conf.v

\* the steps of every call are taken in the fixed order, and the validator
\* never sees a 'none' string nor an object that has attributes already
StepsInOrder ==
    /\ \A n \in 1..Len(stack) : IsPrefix(stack[n].steps, StepOrder)
    /\ \A n \in 1..Len(validated) :
          /\ ~HoldsNoneStr(validated[n].tree)
          /\ DOMAIN validated[n].attrs = {}

C2_ValidatorErrorAborts ==
    err = "SchemaError" =>
        /\ \A n \in 1..Len(stack) : DOMAIN stack[n].attrs = {}
        /\ Top.pc = "named"
        /\ SameValue(validated[Len(validated)].tree, Top.config_map)
        /\ ~ENABLED Next

\* the validator accepted the base and rejected the merged tree
C2_Witness ==
    /\ err = "SchemaError"
    /\ Len(stack) = 1
    /\ Len(validated) = 2
    /\ DOMAIN stack[1].base # {}
    /\ DOMAIN stack[1].attrs = {}

\* FROM is the path of a file of the user, and no packaged name
FromIsUserFile ==
    /\ HasFROM
    /\ conf.v[S_FROM].t = "str"
    /\ BaseName(conf.v[S_FROM].v) \notin DOMAIN PackagedConfigs
    /\ conf.v[S_FROM].v \in DOMAIN UserFiles

\* C3: a FROM that is no packaged name is read as a file path: once the
\* constructor is past its FROM, it has not failed on the unknown name, and
\* the base it goes on with is built from the file at that path.
C3_UnknownNameReadAsPath ==
    FromIsUserFile /\ stack[1].pc # "start" =>
        /\ err # "FileNotFoundError"
        /\ stack[1].pc = "base" => Len(stack) > 1

\* the paths of a tree that lead to a value that is no tree, with the value
RECURSIVE LeavesAt(_, _)
LeavesAt(path, x) ==
    IF x.t = "dict"
    THEN UNION { LeavesAt(Append(path, k), x.v[k]) : k \in DOMAIN x.v }
    ELSE { [path |-> path, value |-> x] }

Leaves(d) == LeavesAt(<<>>, d)

\* no string of x is 'none' in any case, none holds a `$`
RECURSIVE Plain(_)
Plain(x) ==
    CASE x.t = "str" -> Lower(x.v) # NoneStr /\ \A i \in 1..Len(x.v) : x.v[i] # "$"
      [] x.t = "list" -> \A i \in 1..Len(x.v) : Plain(x.v[i])
      [] x.t = "dict" -> \A k \in DOMAIN x.v : Plain(x.v[k])
      [] OTHER -> TRUE

\* a leaf the constructor rewrites by name: the Regressors list, and an
\* FSLDIR that stands for the environment's
RewrittenByName(l) ==
    \/ l.path = RegressorsPath
    \/ l.path = <<S_FSLDIR>> /\ l.value.t = "str" /\ MatchesFSLDIR(l.value.v)

AtTemplates == Len(stack) = 1 /\ "template" \in {stack[1].steps[i] : i \in 1..Len(stack[1].steps)}

\* C5: with a: {b: 5} and c: "${a.b}" in the raw mapping, template
\* resolution completes and c is "5".
C5_NonStringSubstituted ==
    /\ AtTemplates
    /\ Ka \in DOMAIN conf.v /\ SameValue(conf.v[Ka], D1(Kb, IntV(5)))
    /\ Kc \in DOMAIN conf.v
    /\ SameValue(conf.v[Kc], StrV(<<"$","{","a",".","b","}">>))
    => /\ err = "none"
       /\ SameValue(stack[1].attrs[Kc], StrV(<<"5">>))

\* C6: a token whose path does not exist, at its first segment (x.y) or at a
\* later one (a.y), is left in place with a warning, and construction
\* completes.
C6_MissingPathWarns ==
    \A token \in { <<"$","{","x",".","y","}">>, <<"$","{","a",".","y","}">> } :
        /\ AtTemplates
        /\ Kc \in DOMAIN conf.v /\ SameValue(conf.v[Kc], StrV(token))
        => /\ err = "none"
           /\ Constructed
           /\ SameValue(stack[1].attrs[Kc], StrV(token))
           /\ warned >= 1

\* the attributes of a call as line 134 left them, before line 136
EnvResolvedAttrs(f) ==
    [k \in DOMAIN f.config_map.v |-> set_from_ENV(env, f.config_map.v[k])]

\* every attribute resolved with the tree `source` as the lookup source
ResolvedAgainst(source, attributes) ==
    [k \in DOMAIN attributes |->
        check_pattern(source, attributes[k],
                      IF k \in template_list THEN StrV(S_FSLDIR) ELSE NoTags).val]

\* C14: when a constructor call returns, every attribute holds its
\* environment-resolved value with each token replaced by the text the
\* referenced path held in the environment-resolved tree, before any
\* template substitution: a referenced value that contains a token itself
\* is inserted unexpanded, whatever the order of the attributes.
C14_LookupInEnvResolvedTree ==
    \A n \in 1..Len(stack) :
        stack[n].pc = "ready"
        => SameAttrs(stack[n].attrs,
                     ResolvedAgainst(EnvResolvedAttrs(stack[n]),
                                     EnvResolvedAttrs(stack[n])))

\* C16: with FROM default and the override a: {b: custom}, the base's
\* e: "${a.b}/u" is resolved against the merged tree, so e is "custom/u" and
\* not "w/u", which the base's own a.b gives.
C16_BaseTokenReadsOverride ==
    /\ Constructed
    /\ SameValue(conf, Merge(D1(Ka, D1(Kb, StrV(<<"c","u","s","t","o","m">>))),
                             D1(S_FROM, StrV(S_default))))
    => SameValue(stack[1].attrs[Ke],
                 StrV(<<"c","u","s","t","o","m","/","u">>))

----------------------------------------------------------------------------
(* Claims on __getitem__ and __setitem__ (SpecAccess) *)

\* the last call was made with a string, a tuple or a list that names a path
PathCall(op) ==
    /\ lastop.op = op
    /\ lastop.key.form \in {"str", "tuple", "list"}
    /\ lastop.key.ks # <<>>

\* the outcomes of two assignments: the same error, the same attributes after
SameAssignment(r, q) == r.err = q.err /\ SameAttrs(r.val, q.val)

\* C9: after c[p] = v on an existing path p, given as a tuple or as a list,
\* c[p] returns v; and on every object a string key k reads and writes as
\* the one-element paths (k,) and [k] do.
C9_RoundTripAndKeyForms ==
    /\ /\ PathCall("set")
       /\ lastop.key.form \in {"tuple", "list"}
       /\ getitem(lastop.before, lastop.key).err = "none"
       => /\ lastop.err = "none"
          /\ SameOutcome(getitem(cfg, lastop.key), Ret(lastop.value))
    /\ \A k \in {Ka, Kd, Kz, Kl} :
          /\ SameOutcome(getitem(cfg, StrKey(k)), getitem(cfg, TupleKey(<<k>>)))
          /\ SameOutcome(getitem(cfg, StrKey(k)), getitem(cfg, ListKey(<<k>>)))
          /\ \A v \in AccessValues :
                /\ SameAssignment(setitem(cfg, StrKey(k), v),
                                  setitem(cfg, TupleKey(<<k>>), v))
                /\ SameAssignment(setitem(cfg, StrKey(k), v),
                                  setitem(cfg, ListKey(<<k>>), v))

\* c['a', 'c', 'k'] = 'n' on an object where a.c.k was 1
C9_Witness ==
    /\ lastop.op = "set"
    /\ lastop.key = TupleKey(<<Ka, Kc, Kk>>)
    /\ SameValue(lastop.value, StrV(<<"n">>))
    /\ SameOutcome(getitem(lastop.before, lastop.key), Ret(IntV(1)))
    /\ SameOutcome(getitem(cfg, lastop.key), Ret(StrV(<<"n">>)))
    /\ SameValue(cfg[Ka].v[Kb], StrV(<<"v">>))

\* what reading the keys ks below the value d raises, told from the values
\* on the way alone
RECURSIVE ErrorBelow(_, _)
ErrorBelow(d, ks) ==
    IF d.t = "null" THEN "KeyError"
    ELSE IF d.t # "dict" THEN "TypeError"
    ELSE IF ks[1] \notin DOMAIN d.v THEN "KeyError"
    ELSE IF Len(ks) = 1 THEN "none"
    ELSE ErrorBelow(d.v[ks[1]], Tail(ks))

ErrorOnPath(attrs, ks) ==
    IF ks[1] \notin DOMAIN attrs THEN "AttributeError"
    ELSE IF Len(ks) = 1 THEN "none"
    ELSE ErrorBelow(attrs[ks[1]], Tail(ks))

\* C10 (as amended): a read c[path] fails with AttributeError when the first
\* key is not a top-level attribute, with KeyError when a later key is absent
\* from its parent tree or the value it is looked up in is null, and with
\* TypeError when the value it is looked up in is a scalar, a string or a
\* sequence; it succeeds otherwise, and the read leaves the configuration
\* unchanged.
C10_ErrorKindByCase ==
    PathCall("get") =>
        /\ lastop.err = ErrorOnPath(lastop.before, lastop.key.ks)
        /\ SameAttrs(cfg, lastop.before)

\* C10 as stated: every failed read fails with KeyError
C10_AlwaysKeyError ==
    PathCall("get") /\ lastop.err # "none" =>
        /\ lastop.err = "KeyError"
        /\ SameAttrs(cfg, lastop.before)

\* c['a', 'b', 'x'] where a.b is a string
C10_Witness ==
    /\ lastop.op = "get"
    /\ lastop.key = TupleKey(<<Ka, Kb, Kx>>)
    /\ lastop.err = "TypeError"
    /\ SameValue(lastop.before[Ka].v[Kb], StrV(<<"v">>))
    /\ SameAttrs(cfg, lastop.before)

\* the last call assigned to one top-level name
AssignsName(op) ==
    /\ op.op \in {"set", "setattr", "update"}
    /\ op.err = "none"
    /\ Len(op.key.ks) = 1

\* C11 (as amended): a call that fails, a read, and an assignment below an
\* existing top-level field leave the set of keys that keys() and dict()
\* report unchanged.  An assignment to one top-level name, by attribute, by
\* string key, by a one-element path or by update, makes that name a key,
\* also when it was none before; update(k) without a value stores a callable
\* there, and keys() and dict() then report k no longer.
C11_KeysChangeByTopLevelNames ==
    [][ IF AssignsName(lastop')
        THEN keys(cfg') =
                IF lastop'.value.t = "callable"
                THEN keys(cfg) \ {lastop'.key.ks[1]}
                ELSE keys(cfg) \cup {lastop'.key.ks[1]}
        ELSE keys(cfg') = keys(cfg) ]_vars

\* C11 as stated: no call changes the set of keys
C11_KeysNeverChange == [][keys(cfg') = keys(cfg)]_vars

\* c['z'] = 7 on an object without a field z
C11_Witness ==
    /\ lastop.op = "set"
    /\ lastop.key = StrKey(Kz)
    /\ lastop.err = "none"
    /\ Kz \notin keys(lastop.before)
    /\ keys(cfg) = keys(lastop.before) \cup {Kz}

----------------------------------------------------------------------------
(* Claims on the random seed (SpecSeed) *)

\* the last call was set_up_random_state
SetUpCalled == lastop.op = "set_up_random_state"

\* C12: set_up_random_state(seed) raises ValueError exactly when seed is not
\* None, not 'random' and not an int in 1..2147483647, and the stored seed is
\* then what it was before the call; after a valid int n, random_seed()
\* returns n, and after None it returns None.
C12_InvalidSeedRejected ==
    SetUpCalled =>
        LET seed == lastop.value
            valid == \/ seed.t = "null"
                     \/ seed.t = "str" /\ seed.v = S_random
                     \/ seed.t = "int" /\ seed.v \in 1..INT32_MAX
        IN  /\ lastop.err = (IF valid THEN "none" ELSE "ValueError")
            /\ ~valid => SameValue(_seed, lastop.before)
            /\ valid /\ seed.t \in {"int", "null"} =>
                  \A drawn \in Draws :
                      /\ SameValue(random_seed(_seed, drawn).ret, seed)
                      /\ SameValue(random_seed(_seed, drawn).seed, seed)

\* set_up_random_state(0) after set_up_random_state(100)
C12_Witness ==
    /\ SetUpCalled
    /\ SameValue(lastop.value, IntV(0))
    /\ lastop.err = "ValueError"
    /\ SameValue(lastop.before, IntV(100))
    /\ SameValue(_seed, IntV(100))

\* C13: random_seed() never returns the string 'random'; called after
\* set_up_random_state('random') it returns an int in 1..2147483647, and
\* called again with no set_up_random_state in between it returns the same
\* int.
C13_RandomSeedDrawnOnce ==
    [][ /\ lastop'.op = "random_seed" =>
              /\ ~IsRandom(lastop'.got)
              /\ SameValue(lastop'.got, _seed')
              /\ SetUpCalled /\ lastop.err = "none" /\ IsRandom(lastop.value) =>
                    lastop'.got.t = "int" /\ lastop'.got.v \in 1..INT32_MAX
              /\ lastop.op = "random_seed" => SameValue(lastop'.got, lastop.got)
              /\ ~IsRandom(_seed) => SameValue(lastop'.got, _seed)
        /\ lastop'.op = "rewrite" => SameValue(_seed', _seed) ]_vars

\* two calls of random_seed() after set_up_random_state('random')
C13_Witness ==
    /\ nops = 3
    /\ lastop.op = "random_seed"
    /\ SameValue(lastop.before, IntV(42))
    /\ SameValue(lastop.got, IntV(42))
    /\ SameValue(_seed, IntV(42))

\* C17: while the stored seed is a valid int n, set by set_up_random_state,
\* every flag list of random_seed_flags['interfaces'] carries n: the ANTs
\* flag is '--random-seed n', the FSL flag '-seed n', the FreeSurfer flag
\* '-rng-seed n', and the ANTs flag is the one the rewrite of hardcoded_reg
\* inserts.
C17_FlagsCarryStoredSeed ==
    IsValidInt(_seed) =>
        LET n == DecimalStr(_seed.v)
        IN  /\ random_seed_flags.AI = <<S_random_seed_flag \o n>>
            /\ random_seed_flags.Registration = <<S_random_seed_flag \o n>>
            /\ random_seed_flags.ReconAll = <<S_norandomness, S_rng_seed_flag \o n>>
            /\ random_seed_flags.ApplyVolTransform = <<S_seed_flag \o n>>
            /\ random_seed_flags.ImageMaths = <<S_seed_flag \o n>>
            /\ lastop.op = "rewrite" =>
                  random_seed_flags.Registration = <<lastop.got.v>>


----------------------------------------------------------------------------
(* Claims on copy and on template resolution after construction (SpecCopy) *)

\* obj.dict(): the method runs on the object it is bound to
DictOf(c, n, obj) == dict(AttrsOf(c, n, Receiver(n, obj)))

\* the value holds no token but ${FSLDIR}
RECURSIVE OnlyFSLDIRTokens(_)
OnlyFSLDIRTokens(x) ==
    CASE x.t = "str" ->
             LET m == TemplateMatch(x.v)
             IN  m[1] = 0 \/ Slice(x.v, m[1], m[2]) = <<"$","{">> \o S_FSLDIR \o <<"}">>
      [] x.t = "list" -> \A i \in 1..Len(x.v) : OnlyFSLDIRTokens(x.v[i])
      [] x.t = "dict" -> \A k \in DOMAIN x.v : OnlyFSLDIRTokens(x.v[k])
      [] OTHER -> TRUE

\* C15: when _update_attr has run over an object (copy runs it), every
\* attribute of the spatial-template list whose tokens are all ${FSLDIR}
\* holds the value it held before, a string or strings inside a list, also
\* when the object has an FSLDIR attribute.
C15_FSLDIRTokenExempt ==
    lastop.op = "copy" /\ lastop.err = "none"
    => \A k \in template_list \cap DOMAIN lastop.before :
          OnlyFSLDIRTokens(lastop.before[k])
          => SameValue(AttrsOf(cfg, newone, Receiver(newone, "newone"))[k],
                       lastop.before[k])

\* C18: once the copy is made, an assignment obj[key] = value or
\* obj.update(key, val) on one of the two objects leaves what the other
\* object gives unchanged: its attributes, read by name or by path, and its
\* dict().
C18_CopyIsIndependent ==
    [][ newone.made /\ newone'.made /\ lastop'.op \in {"set", "update"}
        => LET other == Other(lastop'.on)
           IN  /\ SameAttrs(AttrsOf(cfg', newone', other),
                            AttrsOf(cfg, newone, other))
               /\ SameAttrs(DictOf(cfg', newone', other),
                            DictOf(cfg, newone, other)) ]_vars

============================================================================
